---- MODULE Spec2Model ----
(***************************************************************************)
(* A model of mapilio_kit/uploader.py: the resumable upload loop           *)
(* (_upload_zipfile_fp), the failure classifier (is_retriable_exception),  *)
(* the progress Notifier, the sequence packager (_zip_sequence) and the    *)
(* orchestrator (upload_image_dir_and_description).                        *)
(*                                                                         *)
(* The chunked-upload service (upload_api_v1) is a collaborator whose code *)
(* is not part of uploader.py; its behaviour follows section 6 of the      *)
(* specification: fetch_offset reports the bytes the server holds, upload  *)
(* transmits the remaining bytes chunk by chunk from the offset it is      *)
(* given and runs the callbacks once per accepted chunk.                   *)
(***************************************************************************)
EXTENDS Integers, Sequences, FiniteSets, TLC

VARIABLES
    pc,              \* position of control
    \* ---- _upload_zipfile_fp: parameters and locals
    entity_size,     \* size of the archive in bytes
    chunk_size,      \* chunk size handed to upload
    dry_run,         \* TRUE: FakeUploadService, FALSE: UploadService
    has_notifier,    \* notifier is not None
    retries,         \* the closure's retry counter
    offset,          \* local `offset`, the last value fetch_offset returned
    callbacks,       \* upload_service.callbacks
    uploaded_bytes,  \* Notifier.uploaded_bytes
    sleep_for,       \* the last delay slept (0: none yet)
    raised,          \* the exception that left the loop (NoException: none)
    \* ---- the upload service and the server behind it
    server_offset,   \* bytes the server holds for the session
    pos,             \* position of the running upload call
    reported,        \* value the service returned from the last fetch_offset
    upload_from,     \* offset argument the service received in the last upload
    \* ---- observations
    notified,        \* payload of the last progress event (NoPayload: none)
    net,             \* kinds of network operation performed so far
    attempts,        \* fetch_offset calls since the counter was last reset
    sleeps,          \* sleeps since the counter was last reset
    last_step,       \* the operation that produced this state
    reset_from,      \* "none" | "zero" | "positive": counter before last reset
    emit,            \* "none" | "sent" | "dropped": the last chunk's event
    caught,          \* the exception the `except` branch did not retry
    \* ---- upload_image_dir_and_description
    user_ok,         \* user_items conforms to types.UserItemSchema
    descs,           \* the descriptor list, its summary record last
    sequences,       \* _group_sequences_by_uuid's result, in dict order
    sequence_idx,    \* index of the sequence being processed (from 0)
    tempfiles,       \* indices of the sequences whose temporary archive exists
    sequence_md5,    \* _zip_sequence's hash of the current sequence
    sequence_info,   \* the SequenceInfo returned for the current sequence
    posts,           \* the bodies POSTed by upload_desc, in order
    events,          \* package / upload_ok / upload_failed / submit, in order
    error,           \* why the run was aborted ("none": it was not)
    \* ---- zip_image_dir
    zip_dir,         \* the files of zip_dir: their names and their entries
    \* ---- a pure function under test: its argument and its result
    call_arg,
    call_res

loopVars == <<entity_size, chunk_size, dry_run, has_notifier, retries, offset,
              callbacks, uploaded_bytes, sleep_for, raised, server_offset, pos,
              reported, upload_from, notified, net, attempts, sleeps,
              last_step, reset_from, emit, caught>>
runVars == <<user_ok, descs, sequences, sequence_idx, tempfiles, sequence_md5,
             sequence_info, posts, events, error>>
callVars == <<call_arg, call_res>>
zipVars == <<zip_dir>>
vars == <<pc, loopVars, runVars, callVars, zipVars>>

(***************************************************************************)
(* Bounds of the model.                                                    *)
(***************************************************************************)
MaxEntitySize == 3
MaxChunkSize == 2

(***************************************************************************)
(* Program constants.                                                      *)
(***************************************************************************)
\* `retries < 200`
MaxRetries == 200
\* `min(2 ** retries, 16)`
MaxSleep == 16

Min(a, b) == IF a < b THEN a ELSE b
Max(a, b) == IF a > b THEN a ELSE b

\* min(2 ** n, cap), doubling from 1 and stopping once cap is reached: Python's
\* integers are unbounded, the model checker's are 32 bits wide.
RECURSIVE Pow2Capped(_, _, _)
Pow2Capped(n, cap, acc) ==
    IF n = 0 \/ acc >= cap THEN Min(acc, cap)
    ELSE Pow2Capped(n - 1, cap, 2 * acc)

(***************************************************************************)
(* Failures.  An exception is a record: its class, and for an HTTPError    *)
(* the status code and the kind of body of the response.                   *)
(***************************************************************************)
NoException == [kind |-> "none", status |-> 0, body |-> "none", wrapped |-> FALSE]
NotCalled == "not_called"

ExceptionKinds == {"ConnectionError", "Timeout", "HTTPError", "ValueError"}
StatusCodes == {302, 399, 400, 404, 499, 500, 503, 599, 600}
\* The body of an error response: not JSON; JSON that is not an object; an
\* object without "debug_info"; "debug_info" that is not an object; a
\* "debug_info" object without "retriable"; "retriable" true; "retriable" false.
Bodies == {"not_json", "json_array", "no_debug_info", "debug_info_not_object",
           "no_flag", "retriable_true", "retriable_false"}

Exc(k, s, b) == [kind |-> k, status |-> s, body |-> b, wrapped |-> FALSE]

Exceptions ==
    {Exc(k, 0, "none") : k \in ExceptionKinds \ {"HTTPError"}}
        \cup {Exc("HTTPError", s, b) : s \in StatusCodes, b \in Bodies}

\* is_retriable_exception: "True", "False", or the exception it raises itself.
is_retriable_exception(ex) ==
    IF ex.kind \in {"ConnectionError", "Timeout"} THEN "True"
    ELSE IF ex.kind = "HTTPError" THEN
        IF 400 <= ex.status /\ ex.status < 500 THEN
            \* ex.response.json() raising json.JSONDecodeError
            IF ex.body = "not_json" THEN "False"
            \* resp.get on a list, or .get on a "debug_info" that is no dict
            ELSE IF ex.body \in {"json_array", "debug_info_not_object"}
                THEN "AttributeError"
            ELSE IF ex.body = "retriable_true" THEN "True"
            ELSE "False"
        ELSE "True"
    ELSE "False"

\* wrap_http_exception(ex) for an HTTPError, ex itself otherwise
Surfaced(ex) ==
    IF ex.kind = "HTTPError" THEN [ex EXCEPT !.wrapped = TRUE] ELSE ex

(***************************************************************************)
(* Paths, descriptors and sequences.  A relative path is the sequence of   *)
(* its components: "a/b/img1.jpg" is <<"a", "b", "img1.jpg">>, "" is <<>>. *)
(***************************************************************************)
MIN_CHUNK_SIZE == 2097152
MAX_CHUNK_SIZE == 16777216

\* desc.get("SequenceUUID") of a descriptor that has none
NoUUID == "<None>"
\* missing_sequence_uuid = str(uuid.uuid4()), one per call
MissingUUID == "uuid4"
\* str(sequence_uuid)
StrOf(u) == IF u = NoUUID THEN "None" ELSE u

NoSequenceInfo == [key |-> "", count |-> 0, size |-> 0, hash |-> ""]

\* os.path.dirname
dirname(p) == IF Len(p) = 0 THEN <<>> ELSE SubSeq(p, 1, Len(p) - 1)

\* os.path.join(desc["path"], desc["filename"])
JoinPath(dir, filename) == dir \o <<filename>>

\* A resolver that stops at the shortest of the parent directories instead of
\* climbing until they coincide.
ShortestParentDir(file_list) ==
    LET dirs == {dirname(path) : path \in file_list}
    IN  IF dirs = {} THEN {}
        ELSE {CHOOSE d \in dirs : \A e \in dirs : Len(d) <= Len(e)}

\* _find_root_dir: the set holding the directory it returns, {} for None
RECURSIVE _find_root_dir(_)
_find_root_dir(file_list) ==
    LET dirs == {dirname(path) : path \in file_list}
    IN  IF Cardinality(dirs) = 0 THEN {}
        ELSE IF Cardinality(dirs) = 1 THEN dirs
        ELSE _find_root_dir(dirs)

\* length of the longest common prefix of two paths
RECURSIVE CommonLen(_, _)
CommonLen(p, q) ==
    IF p = <<>> \/ q = <<>> \/ Head(p) # Head(q) THEN 0
    ELSE 1 + CommonLen(Tail(p), Tail(q))

\* os.path.relpath(file, root_dir), both relative to the same directory
relpath(file, root_dir) ==
    LET k == CommonLen(file, root_dir)
    IN  [i \in 1..(Len(root_dir) - k) |-> ".."]
            \o SubSeq(file, k + 1, Len(file))

\* exif_write.ExifEdit(abspath).dump_image_bytes(): the bytes of the image
\* file, which depend on the file alone
ImageBytes(file) ==
    CASE file[Len(file)] = "img1.jpg" -> <<1>>
      [] file[Len(file)] = "img2.jpg" -> <<2>>
      [] OTHER -> <<1, 2>>

\* `desc_without_filename = {**desc}; del desc_without_filename["filename"]`
WithoutFilename(desc) == [f \in DOMAIN desc \ {"filename"} |-> desc[f]]

\* The entry of a sequence for a descriptor: its key and the descriptor
\* without its filename, of which SequenceUUID and CaptureTime are read later.
Entry(desc) ==
    [file |-> JoinPath(desc.path, desc.filename),
     desc |-> WithoutFilename(desc),
     SequenceUUID |-> desc.SequenceUUID,
     CaptureTime |-> desc.CaptureTime]

\* sequence[key] = value on a dict kept in insertion order: a key already
\* there keeps its place and takes the new value.
DictPut(items, e) ==
    IF \E i \in 1..Len(items) : items[i].file = e.file
    THEN [i \in 1..Len(items) |->
             IF items[i].file = e.file THEN e ELSE items[i]]
    ELSE Append(items, e)

\* `sequences[sequence_uuid] = {key: value}`: the sequence is replaced by one
\* that holds the new entry alone.
GroupOverwrite(groups, uuid, e) ==
    IF \E g \in 1..Len(groups) : groups[g].uuid = uuid
    THEN [g \in 1..Len(groups) |->
             IF groups[g].uuid = uuid
             THEN [groups[g] EXCEPT !.images = <<e>>]
             ELSE groups[g]]
    ELSE Append(groups, [uuid |-> uuid, images |-> <<e>>])

\* sequences.setdefault(sequence_uuid, {}) followed by the assignment
GroupPut(groups, uuid, e) ==
    IF \E g \in 1..Len(groups) : groups[g].uuid = uuid
    THEN [g \in 1..Len(groups) |->
             IF groups[g].uuid = uuid
             THEN [groups[g] EXCEPT !.images = DictPut(@, e)]
             ELSE groups[g]]
    ELSE Append(groups, [uuid |-> uuid, images |-> <<e>>])

RECURSIVE GroupFrom(_, _, _)
GroupFrom(image_descs, i, groups) ==
    IF i > Len(image_descs) THEN groups
    ELSE LET desc == image_descs[i]
             sequence_uuid == IF desc.SequenceUUID = NoUUID THEN MissingUUID
                              ELSE desc.SequenceUUID
         IN  GroupFrom(image_descs, i + 1,
                       GroupPut(groups, sequence_uuid, Entry(desc)))

_group_sequences_by_uuid(image_descs) == GroupFrom(image_descs, 1, <<>>)

\* _validate_descs: "ok", or the exception it raises.  defect is what is wrong
\* with a descriptor: "schema" (jsonschema.validate raises), "missing" (the
\* file is not under image_dir), "none".
ValidateSchemaOnly(image_descs) ==
    IF \E i \in 1..Len(image_descs) : image_descs[i].defect = "schema"
    THEN "ValidationError"
    ELSE "ok"

_validate_descs(image_descs) ==
    IF \E i \in 1..Len(image_descs) : image_descs[i].defect = "schema"
    THEN "ValidationError"
    ELSE IF \E i \in 1..Len(image_descs) : image_descs[i].defect = "missing"
    THEN "RuntimeError"
    ELSE "ok"

\* list.sort(key=...): stable, ascending.  x goes behind every element whose
\* key is not greater.
RECURSIVE InsertByCaptureTime(_, _)
InsertByCaptureTime(x, sorted) ==
    IF sorted = <<>> THEN <<x>>
    ELSE IF Head(sorted).CaptureTime <= x.CaptureTime
    THEN <<Head(sorted)>> \o InsertByCaptureTime(x, Tail(sorted))
    ELSE <<x>> \o sorted

RECURSIVE SortByCaptureTime(_)
SortByCaptureTime(items) ==
    IF items = <<>> THEN <<>>
    ELSE InsertByCaptureTime(items[Len(items)],
                             SortByCaptureTime(SubSeq(items, 1, Len(items) - 1)))

\* hashlib.md5 fed the images one after the other: the digest stands for the
\* bytes it was fed, in order.
RECURSIVE Md5Of(_)
Md5Of(items) ==
    IF items = <<>> THEN <<>>
    ELSE ImageBytes(Head(items).file) \o Md5Of(Tail(items))

\* _zip_sequence on a sequence (its entries in dict order): the hash and the
\* archive's entries in the order written, or the error raised.
_zip_sequence(images) ==
    LET file_list == {images[i].file : i \in 1..Len(images)}
        root_dir == _find_root_dir(file_list)
    IN  IF root_dir = {} THEN [error |-> "RuntimeError", md5 |-> <<>>,
                               archive |-> <<>>]
        ELSE LET root == CHOOSE d \in root_dir : TRUE
                 sorted == SortByCaptureTime(images)
             IN  [error |-> "none",
                  md5 |-> Md5Of(sorted),
                  archive |-> [i \in 1..Len(sorted) |->
                                  [name |-> relpath(sorted[i].file, root),
                                   bytes |-> ImageBytes(sorted[i].file)]]]

\* `fp.seek(0, io.SEEK_END)`, `fp.tell()`: the archive's size, counted as the
\* bytes of its entries
RECURSIVE EntitySize(_)
EntitySize(archive) ==
    IF archive = <<>> THEN 0
    ELSE Len(Head(archive).bytes) + EntitySize(Tail(archive))

\* `max(min(int(entity_size / count), MIN_CHUNK_SIZE), MAX_CHUNK_SIZE)`: the
\* two limits taken in the wrong order
ChunkSizeLimitsSwapped(size, count) ==
    Max(Min(size \div count, MIN_CHUNK_SIZE), MAX_CHUNK_SIZE)

\* `min(max(int(entity_size / count), MIN_CHUNK_SIZE), MAX_CHUNK_SIZE)`
ChunkSize(size, count) ==
    Min(Max(size \div count, MIN_CHUNK_SIZE), MAX_CHUNK_SIZE)

(***************************************************************************)
(* _upload_zipfile_fp: the retry loop.                                     *)
(***************************************************************************)
NoPayload == [chunk_size |-> 0, uploaded_bytes |-> 0]

\* The failures the service raises in the loop's runs: a timeout, a 5xx, a 4xx
\* the server flags retriable, a 4xx with a body that is not JSON, a 4xx whose
\* JSON body is a list, and a failure that is no transport failure at all.
TransferFailures ==
    { Exc("Timeout", 0, "none"),
      Exc("HTTPError", 503, "not_json"),
      Exc("HTTPError", 404, "retriable_true"),
      Exc("HTTPError", 404, "not_json"),
      Exc("HTTPError", 404, "json_array"),
      Exc("ValueError", 0, "none") }

\* `retries < 200 and is_retriable_exception(ex)`: `and` does not call the
\* classifier once the ceiling is reached.
RetryAllowedInclusive(r, ex) ==
    r <= MaxRetries /\ is_retriable_exception(ex) = "True"

\* `is_retriable_exception(ex)` alone: a retry for every retriable failure,
\* however many came before
RetryWhileRetriable(r, ex) == is_retriable_exception(ex) = "True"

RetryAllowed(r, ex) ==
    r < MaxRetries /\ is_retriable_exception(ex) = "True"

ClassifierRaises(r, ex) ==
    r < MaxRetries /\ is_retriable_exception(ex) = "AttributeError"

\* the delay computed from the counter before its increment
SleepForBeforeIncrement(r) == Pow2Capped(r - 1, MaxSleep, 1)

\* `sleep_for = min(2 ** retries, 16)`, from the counter already incremented
SleepFor(r) == Pow2Capped(r, MaxSleep, 1)

\* `upload_service.callbacks = [update_pbar, _reset_retries]`, then the
\* notifier's callback appended when there is a notifier
CallbacksAccumulated(old, notifier) ==
    old \o <<"update_pbar", "_reset_retries">>
        \o (IF notifier THEN <<"notify_progress">> ELSE <<>>)

CallbacksForAttempt(old, notifier) ==
    <<"update_pbar", "_reset_retries">>
        \o (IF notifier THEN <<"notify_progress">> ELSE <<>>)

\* `notifier.uploaded_bytes = offset`
NotifierSeed(o) == o

\* `upload_service.upload(..., chunk_size=chunk_size, offset=offset)`
UploadFromStart(o) == 0

UploadOffsetArg(o) == o

\* _reset_retries(_, __)
ResetKept(r) == r

_reset_retries(r) == 0

\* ipc.send("upload", payload) in Notifier.notify_progress, which has no `try`
\* around it.  ipc is a module of the package whose code is not part of
\* uploader.py; section 4.5 of the specification makes the emission fire and
\* forget: a send that cannot deliver the event returns all the same.
SendFailure == Exc("OSError", 0, "none")

SendPropagates(delivered) == IF delivered THEN "returns" ELSE "raises"

ipc_send(delivered) == "returns"

\* One callback of upload_service.callbacks, called with a chunk of n bytes.
\* st: the retry counter, the notifier's total and the last event sent.
ApplyCallback(cb, n, st) ==
    CASE cb = "_reset_retries" ->
            [st EXCEPT !.retries = _reset_retries(st.retries), !.resets = @ + 1]
      [] cb = "notify_progress" ->
            \* Notifier.notify_progress
            [st EXCEPT !.uploaded_bytes = @ + n,
                       !.notified = [chunk_size |-> n,
                                     uploaded_bytes |-> st.uploaded_bytes + n]]
      [] OTHER -> st   \* update_pbar

RECURSIVE RunCallbacks(_, _, _)
RunCallbacks(cbs, n, st) ==
    IF cbs = <<>> THEN st
    ELSE RunCallbacks(Tail(cbs), n, ApplyCallback(Head(cbs), n, st))

\* The `except Exception as ex` branch of the loop.
HandleFailure(ex) ==
    IF RetryAllowed(retries, ex)
    THEN /\ retries' = retries + 1
         /\ sleep_for' = SleepFor(retries + 1)
         /\ sleeps' = sleeps + 1
         /\ pc' = "fetch"
         /\ raised' = raised
         /\ caught' = caught
    ELSE /\ caught' = ex
         /\ raised' = IF ClassifierRaises(retries, ex)
                      THEN Exc("AttributeError", 0, "none")
                      ELSE Surfaced(ex)
         /\ pc' = "raised"
         /\ UNCHANGED <<retries, sleep_for, sleeps>>

\* fetch_offset returns: the callbacks are set, the notifier is seeded and
\* upload is called with the offset.
FetchOffsetReturns ==
    /\ pc = "fetch"
    /\ attempts' = attempts + 1
    /\ reported' = server_offset
    /\ offset' = reported'
    /\ callbacks' = CallbacksForAttempt(callbacks, has_notifier)
    /\ uploaded_bytes' = IF has_notifier THEN NotifierSeed(offset')
                         ELSE uploaded_bytes
    /\ upload_from' = UploadOffsetArg(offset')
    /\ pos' = upload_from'
    /\ net' = IF dry_run THEN net ELSE net \cup {"fetch_offset"}
    /\ last_step' = "fetch_offset"
    /\ emit' = "none"
    /\ pc' = "upload"
    /\ UNCHANGED <<entity_size, chunk_size, dry_run, has_notifier, retries,
                   sleep_for, raised, server_offset, notified, sleeps,
                   reset_from, caught>>
    /\ UNCHANGED <<runVars, callVars, zipVars>>

\* fetch_offset raises.  FakeUploadService, the backend of a dry run, simulates
\* success and raises nothing.
FetchOffsetFails ==
    /\ pc = "fetch"
    /\ ~dry_run
    /\ \E ex \in TransferFailures : HandleFailure(ex)
    /\ attempts' = attempts + 1
    /\ net' = net \cup {"fetch_offset"}
    /\ last_step' = "failed"
    /\ emit' = "none"
    /\ UNCHANGED <<entity_size, chunk_size, dry_run, has_notifier, offset,
                   callbacks, uploaded_bytes, server_offset, pos, reported,
                   upload_from, notified, reset_from>>
    /\ UNCHANGED <<runVars, callVars, zipVars>>

\* upload transmits the next chunk, the server accepts it and the callbacks run.
\* An exception a callback raises leaves upload and reaches the loop's `except`
\* branch, the counter already reset by the callback before it.
UploadChunkAccepted ==
    /\ pc = "upload"
    /\ pos < entity_size
    /\ \E delivered \in BOOLEAN :
        LET n == Min(chunk_size, entity_size - pos)
            st == RunCallbacks(callbacks, n,
                               [retries |-> retries,
                                uploaded_bytes |-> uploaded_bytes,
                                notified |-> notified,
                                resets |-> 0])
            notifies == \E i \in 1..Len(callbacks) :
                           callbacks[i] = "notify_progress"
            send == IF notifies THEN ipc_send(delivered) ELSE "returns"
        IN /\ pos' = pos + n
           /\ server_offset' = Max(server_offset, pos + n)
           /\ retries' = st.retries
           /\ uploaded_bytes' = st.uploaded_bytes
           /\ notified' = st.notified
           /\ reset_from' = IF st.resets = 0 THEN reset_from
                            ELSE IF retries > 0 THEN "positive" ELSE "zero"
           /\ attempts' = IF st.resets = 0 THEN attempts ELSE 1
           /\ sleeps' = IF st.resets = 0 THEN sleeps ELSE 0
           /\ emit' = IF ~notifies THEN "none"
                      ELSE IF delivered THEN "sent" ELSE "dropped"
           /\ IF send = "raises"
              THEN /\ caught' = SendFailure
                   /\ raised' = Surfaced(SendFailure)
                   /\ last_step' = "failed"
                   /\ pc' = "raised"
              ELSE /\ last_step' = "chunk_accepted"
                   /\ pc' = "upload"
                   /\ UNCHANGED <<raised, caught>>
    /\ net' = IF dry_run THEN net ELSE net \cup {"upload"}
    /\ UNCHANGED <<entity_size, chunk_size, dry_run, has_notifier, offset,
                   callbacks, sleep_for, reported, upload_from>>
    /\ UNCHANGED <<runVars, callVars, zipVars>>

\* upload raises: while a chunk is sent (the server may hold the chunk all the
\* same, its answer lost) or when the transfer is completed.
UploadFails ==
    /\ pc = "upload"
    /\ ~dry_run
    /\ \E ex \in TransferFailures : HandleFailure(ex)
    /\ \E held \in BOOLEAN :
          server_offset' =
              IF held /\ pos < entity_size
              THEN Max(server_offset, pos + Min(chunk_size, entity_size - pos))
              ELSE server_offset
    /\ net' = net \cup {"upload"}
    /\ last_step' = "failed"
    /\ emit' = "none"
    /\ UNCHANGED <<entity_size, chunk_size, dry_run, has_notifier, offset,
                   callbacks, uploaded_bytes, pos, reported, upload_from,
                   notified, attempts, reset_from>>
    /\ UNCHANGED <<runVars, callVars, zipVars>>

\* upload returns the hash: `break`, `return uploaded_hash`.
UploadReturns ==
    /\ pc = "upload"
    /\ pos = entity_size
    /\ pc' = "returned"
    /\ last_step' = "returned"
    /\ emit' = "none"
    /\ UNCHANGED <<entity_size, chunk_size, dry_run, has_notifier, retries,
                   offset, callbacks, uploaded_bytes, sleep_for, raised,
                   server_offset, pos, reported, upload_from, notified, net,
                   attempts, sleeps, reset_from, caught>>
    /\ UNCHANGED <<runVars, callVars, zipVars>>

LoopStart ==
    /\ retries = 0
    /\ offset = 0
    /\ callbacks = <<>>
    /\ uploaded_bytes = 0
    /\ sleep_for = 0
    /\ raised = NoException
    /\ pos = 0
    /\ reported = 0
    /\ upload_from = 0
    /\ notified = NoPayload
    /\ net = {}
    /\ attempts = 0
    /\ sleeps = 0
    /\ last_step = "init"
    /\ reset_from = "none"
    /\ emit = "none"
    /\ caught = NoException

\* No upload is running.
LoopIdle ==
    /\ entity_size = 1
    /\ chunk_size = 1
    /\ dry_run = FALSE
    /\ has_notifier = FALSE
    /\ server_offset = 0
    /\ LoopStart

\* No run of upload_image_dir_and_description or zip_image_dir is under way.
RunIdle ==
    /\ user_ok = TRUE
    /\ descs = <<>>
    /\ sequences = <<>>
    /\ sequence_idx = 0
    /\ tempfiles = {}
    /\ sequence_md5 = <<>>
    /\ sequence_info = NoSequenceInfo
    /\ posts = <<>>
    /\ events = <<>>
    /\ error = "none"
    /\ zip_dir = {}

\* _upload_zipfile_fp called on an archive of which the server may hold a part.
InitLoop ==
    /\ pc = "fetch"
    /\ entity_size \in 1..MaxEntitySize
    /\ chunk_size \in 1..MaxChunkSize
    /\ dry_run \in BOOLEAN
    /\ has_notifier \in BOOLEAN
    /\ server_offset \in 0..entity_size
    /\ LoopStart
    /\ RunIdle
    /\ call_arg = NotCalled
    /\ call_res = NotCalled

NextLoop ==
    \/ FetchOffsetReturns
    \/ FetchOffsetFails
    \/ UploadChunkAccepted
    \/ UploadFails
    \/ UploadReturns

SpecLoop == InitLoop /\ [][NextLoop]_vars

(***************************************************************************)
(* upload_image_dir_and_description: validate, group, then for each        *)
(* sequence package it into a temporary archive, upload the archive        *)
(* (_zip_and_upload_single_sequence) and submit its metadata (upload_desc).*)
(***************************************************************************)
SequenceUUIDs == {"s1", "s2", NoUUID}

\* The descriptors a run may be given for one image file.
DescsOf(filename, time) ==
    { [filename |-> filename, path |-> <<"d">>, SequenceUUID |-> u,
       Heading |-> hd[1], defect |-> hd[2], CaptureTime |-> time] :
         u \in SequenceUUIDs,
         hd \in { <<TRUE, "none">>, <<TRUE, "schema">>, <<TRUE, "missing">>,
                  <<FALSE, "none">> } }

\* The last record of the descriptor list: the summary, which is no image.
Summary ==
    [filename |-> "", path |-> <<>>, SequenceUUID |-> NoUUID,
     Heading |-> FALSE, defect |-> "none", CaptureTime |-> 0]

\* `[desc for desc in descs if "Heading" in desc]`
Eligible(ds) == SelectSeq(ds, LAMBDA d : d.Heading)

\* `with tempfile.NamedTemporaryFile() as fp` left by `return` or by an
\* exception: the file is deleted.
CloseTempFileOnReturnOnly(files, idx, how) ==
    IF how = "return" THEN files \ {idx} ELSE files

CloseTempFile(files, idx, how) == files \ {idx}

\* An exception of _zip_and_upload_single_sequence is not caught by
\* upload_image_dir_and_description: the run is over.
SubmitAfterFailure == "upload_desc"

PcAfterSequenceRaised == "aborted"

Images == sequences[sequence_idx + 1].images

\* lines 136-140: the schema check of user_items, the filter, the validation
\* and the grouping
ValidateAndGroup ==
    /\ pc = "start"
    /\ IF ~user_ok
       THEN /\ pc' = "aborted"
            /\ error' = "ValidationError"
            /\ UNCHANGED sequences
       ELSE LET image_descs == Eligible(descs)
                checked == _validate_descs(image_descs)
            IN  IF checked # "ok"
                THEN /\ pc' = "aborted"
                     /\ error' = checked
                     /\ UNCHANGED sequences
                ELSE /\ sequences' = _group_sequences_by_uuid(image_descs)
                     /\ pc' = "next_seq"
                     /\ UNCHANGED error
    /\ UNCHANGED <<user_ok, descs, sequence_idx, tempfiles, sequence_md5,
                   sequence_info, posts, events>>
    /\ UNCHANGED <<loopVars, callVars, zipVars>>

\* _zip_and_upload_single_sequence is entered for the next sequence: the root
\* directory is found and the temporary file is created.
BeginSequence ==
    /\ pc = "next_seq"
    /\ sequence_idx < Len(sequences)
    /\ IF _find_root_dir({Images[i].file : i \in 1..Len(Images)}) = {}
       THEN /\ pc' = "aborted"
            /\ error' = "RuntimeError"
            /\ UNCHANGED <<tempfiles, events>>
       ELSE /\ tempfiles' = tempfiles \cup {sequence_idx}
            /\ events' = Append(events, [op |-> "package", idx |-> sequence_idx])
            /\ pc' = "zip"
            /\ UNCHANGED error
    /\ sequence_info' = NoSequenceInfo
    /\ UNCHANGED <<user_ok, descs, sequences, sequence_idx, sequence_md5, posts>>
    /\ UNCHANGED <<loopVars, callVars, zipVars>>

\* _zip_sequence returns; the sizes are computed, the Notifier and the upload
\* service are built and the loop of _upload_zipfile_fp is entered.  The
\* server may hold a part of an archive with this hash from an earlier run.
ZipReturns ==
    /\ pc = "zip"
    /\ LET zipped == _zip_sequence(Images)
       IN  /\ zipped.error = "none"
           /\ sequence_md5' = zipped.md5
           /\ entity_size' = EntitySize(zipped.archive)
           /\ chunk_size' = ChunkSize(entity_size', Len(Images))
           /\ server_offset' \in 0..entity_size'
    /\ has_notifier' = TRUE
    /\ retries' = 0
    /\ offset' = 0
    /\ callbacks' = <<>>
    /\ uploaded_bytes' = 0
    /\ sleep_for' = 0
    /\ raised' = NoException
    /\ pos' = 0
    /\ reported' = 0
    /\ upload_from' = 0
    /\ notified' = NoPayload
    /\ attempts' = 0
    /\ sleeps' = 0
    /\ last_step' = "init"
    /\ reset_from' = "none"
    /\ emit' = "none"
    /\ caught' = NoException
    /\ pc' = "fetch"
    /\ UNCHANGED <<dry_run, net>>
    /\ UNCHANGED <<user_ok, descs, sequences, sequence_idx, tempfiles,
                   sequence_info, posts, events, error>>
    /\ UNCHANGED <<callVars, zipVars>>

\* _zip_sequence raises (an image that cannot be read or re-encoded): the
\* `with` block is left by the exception.
ZipRaises ==
    /\ pc = "zip"
    /\ tempfiles' = CloseTempFile(tempfiles, sequence_idx, "raise")
    /\ error' = "PackagingError"
    /\ pc' = "aborted"
    /\ UNCHANGED <<user_ok, descs, sequences, sequence_idx, sequence_md5,
                   sequence_info, posts, events>>
    /\ UNCHANGED <<loopVars, callVars, zipVars>>

\* _upload_zipfile_fp has returned: sequence_info is filled in and returned,
\* which leaves the `with` block.
SequenceReturns ==
    /\ pc = "returned"
    /\ sequence_info' =
          [key |-> StrOf(Images[1].SequenceUUID),
           count |-> Len(Images),
           size |-> entity_size,
           hash |-> "uploaded_hash"]
    /\ tempfiles' = CloseTempFile(tempfiles, sequence_idx, "return")
    /\ events' = Append(events, [op |-> "upload_ok", idx |-> sequence_idx])
    /\ pc' = "upload_desc"
    /\ UNCHANGED <<user_ok, descs, sequences, sequence_idx, sequence_md5, posts,
                   error>>
    \* the locals of _upload_zipfile_fp, the Notifier and the session are gone
    /\ entity_size' = 1
    /\ chunk_size' = 1
    /\ has_notifier' = FALSE
    /\ server_offset' = 0
    /\ retries' = 0
    /\ offset' = 0
    /\ callbacks' = <<>>
    /\ uploaded_bytes' = 0
    /\ sleep_for' = 0
    /\ raised' = NoException
    /\ pos' = 0
    /\ reported' = 0
    /\ upload_from' = 0
    /\ notified' = NoPayload
    /\ attempts' = 0
    /\ sleeps' = 0
    /\ last_step' = "init"
    /\ reset_from' = "none"
    /\ emit' = "none"
    /\ caught' = NoException
    /\ UNCHANGED <<dry_run, net>>
    /\ UNCHANGED <<callVars, zipVars>>

\* _upload_zipfile_fp has raised: the exception leaves the `with` block and
\* upload_image_dir_and_description.
SequenceRaises ==
    /\ pc = "raised"
    /\ tempfiles' = CloseTempFile(tempfiles, sequence_idx, "raise")
    /\ events' = Append(events, [op |-> "upload_failed", idx |-> sequence_idx])
    /\ error' = "TransportError"
    /\ pc' = PcAfterSequenceRaised
    /\ UNCHANGED <<user_ok, descs, sequences, sequence_idx, sequence_md5,
                   sequence_info, posts>>
    /\ UNCHANGED <<loopVars, callVars, zipVars>>

\* upload_desc(image_desc=descs, seq_info=sequence_information): the summary
\* is popped, the descriptors of the sequence are selected by the key of
\* seq_info and the body is POSTed.  An HTTPError of raise_for_status is
\* printed; a failure of requests.request itself is not caught.
upload_desc ==
    /\ pc = "upload_desc"
    /\ LET image_desc == SubSeq(descs, 1, Len(descs) - 1)
           sequence_uuid == sequence_info.key
           description_chunk ==
               SelectSeq(image_desc, LAMBDA d : d.SequenceUUID = sequence_uuid)
       IN  posts' = Append(posts,
                           [key |-> sequence_uuid,
                            json_data |-> [i \in 1..Len(description_chunk) |->
                                              description_chunk[i].filename]])
    /\ net' = net \cup {"post"}
    /\ events' = Append(events, [op |-> "submit", idx |-> sequence_idx])
    /\ \E outcome \in {"ok", "HTTPError", "ConnectionError"} :
          IF outcome = "ConnectionError"
          THEN /\ pc' = "aborted"
               /\ error' = "ConnectionError"
               /\ UNCHANGED sequence_idx
          ELSE /\ pc' = "next_seq"
               /\ sequence_idx' = sequence_idx + 1
               /\ UNCHANGED error
    /\ UNCHANGED <<user_ok, descs, sequences, tempfiles, sequence_md5,
                   sequence_info>>
    /\ UNCHANGED <<entity_size, chunk_size, dry_run, has_notifier, retries,
                   offset, callbacks, uploaded_bytes, sleep_for, raised,
                   server_offset, pos, reported, upload_from, notified,
                   attempts, sleeps, last_step, reset_from, emit, caught>>
    /\ UNCHANGED <<callVars, zipVars>>

\* the `for` loop has no sequence left
RunEnds ==
    /\ pc = "next_seq"
    /\ sequence_idx = Len(sequences)
    /\ pc' = "finished"
    /\ UNCHANGED <<loopVars, runVars, callVars, zipVars>>

InitRun ==
    /\ pc = "start"
    /\ user_ok \in BOOLEAN
    /\ dry_run \in BOOLEAN
    /\ descs \in { <<d1, d2, Summary>> :
                      d1 \in DescsOf("img1.jpg", 2), d2 \in DescsOf("img2.jpg", 1) }
    /\ sequences = <<>>
    /\ sequence_idx = 0
    /\ tempfiles = {}
    /\ sequence_md5 = <<>>
    /\ sequence_info = NoSequenceInfo
    /\ posts = <<>>
    /\ events = <<>>
    /\ error = "none"
    /\ entity_size = 1
    /\ chunk_size = 1
    /\ has_notifier = FALSE
    /\ server_offset = 0
    /\ LoopStart
    /\ zip_dir = {}
    /\ call_arg = NotCalled
    /\ call_res = NotCalled

NextRun ==
    \/ ValidateAndGroup
    \/ BeginSequence
    \/ ZipReturns
    \/ ZipRaises
    \/ FetchOffsetReturns
    \/ FetchOffsetFails
    \/ UploadChunkAccepted
    \/ UploadFails
    \/ UploadReturns
    \/ SequenceReturns
    \/ SequenceRaises
    \/ upload_desc
    \/ RunEnds

SpecRun == InitRun /\ [][NextRun]_vars

(***************************************************************************)
(* is_retriable_exception applied to one exception.                        *)
(***************************************************************************)
InitClassify ==
    /\ pc = "classify"
    /\ call_arg \in Exceptions
    /\ call_res = NotCalled
    /\ LoopIdle
    /\ RunIdle

Classify ==
    /\ pc = "classify"
    /\ call_res' = is_retriable_exception(call_arg)
    /\ pc' = "classified"
    /\ UNCHANGED <<call_arg, loopVars, runVars, zipVars>>

NextClassify == Classify

SpecClassify == InitClassify /\ [][NextClassify]_vars

(***************************************************************************)
(* _zip_sequence applied to one sequence: a descriptor map, its entries in *)
(* the map's iteration order.                                              *)
(***************************************************************************)
MaxCaptureTime == 2

SequenceFiles ==
    { <<"a", "b", "img1.jpg">>, <<"a", "b", "c", "img2.jpg">>,
      <<"a", "b", "img3.jpg">> }

SequenceEntries ==
    { [file |-> f, SequenceUUID |-> "s1", CaptureTime |-> t] :
         f \in SequenceFiles, t \in 1..MaxCaptureTime }

\* The maps of one to three files: no key twice.
SequenceMaps ==
    { m \in UNION { [1..n -> SequenceEntries] : n \in 1..Cardinality(SequenceFiles) } :
         \A i, j \in 1..Len(m) : m[i].file = m[j].file => i = j }

InitZip ==
    /\ pc = "zip_call"
    /\ call_arg \in SequenceMaps
    /\ call_res = NotCalled
    /\ LoopIdle
    /\ RunIdle

ZipSequence ==
    /\ pc = "zip_call"
    /\ call_res' = _zip_sequence(call_arg)
    /\ pc' = "zipped"
    /\ UNCHANGED <<call_arg, loopVars, runVars, zipVars>>

NextZip == ZipSequence

SpecZip == InitZip /\ [][NextZip]_vars

(***************************************************************************)
(* Claims about the retry loop (specification SpecLoop).                   *)
(***************************************************************************)
\* The exception that left the loop is one the classifier calls retriable: the
\* retry budget was used up.
BudgetSpent ==
    /\ raised.kind \notin {"none", "AttributeError"}
    /\ is_retriable_exception([raised EXCEPT !.wrapped = FALSE]) = "True"

Exhausted == pc = "raised" /\ BudgetSpent

\* C1: while no chunk has been accepted, the loop sleeps at most 200 times and
\* calls fetch_offset at most 201 times, and when every attempt has failed
\* with a retriable failure it raises on the 201st failure, after exactly 200
\* retries.
C1_RetryCeiling ==
    reset_from = "none" =>
        /\ sleeps <= 200
        /\ attempts <= 201
        /\ retries = sleeps
        /\ (Exhausted => attempts = 201 /\ sleeps = 200)

C1_Witness ==
    /\ Exhausted
    /\ reset_from = "none"
    /\ attempts = 201
    /\ sleeps = 200

\* C2: the retry counter is 0 right after an accepted chunk, whatever it was
\* before, so the budget of 200 is one of consecutive retries without
\* progress: the loop gives up exactly 200 sleeps after the last reset.
C2_ResetOnProgress ==
    /\ (last_step = "chunk_accepted" => retries = 0)
    /\ retries = sleeps
    /\ (Exhausted => sleeps = 200)

C2_Witness ==
    /\ last_step = "chunk_accepted"
    /\ reset_from = "positive"
    /\ retries = 0

\* C4: whenever upload runs, fetch_offset has been called once more than the
\* loop has retried (every attempt made its own call), the offset upload was
\* given is the value that call returned, and the transfer never restarts
\* below it.
C4_UploadFromFetchedOffset ==
    pc = "upload" =>
        /\ attempts = retries + 1
        /\ upload_from = reported
        /\ upload_from = offset
        /\ pos >= reported

C4_Witness ==
    /\ pc = "upload"
    /\ last_step = "fetch_offset"
    /\ retries > 0
    /\ reported > 0
    /\ upload_from = reported

\* C5: every progress event carries the resume offset of its attempt plus the
\* bytes accepted in that attempt, each chunk counted once, a value between 1
\* and the entity size; from one event to the next the value never decreases.
C5_EventInRange ==
    (has_notifier /\ notified # NoPayload) =>
        /\ notified.uploaded_bytes >= 1
        /\ notified.uploaded_bytes <= entity_size
        /\ (last_step = "chunk_accepted" =>
               /\ notified.uploaded_bytes = reported + (pos - upload_from)
               /\ notified.uploaded_bytes = uploaded_bytes)

C5_ProgressContinuous ==
    /\ [](C5_EventInRange)
    /\ [][notified'.uploaded_bytes >= notified.uploaded_bytes]_vars

C5_Witness ==
    /\ has_notifier
    /\ last_step = "chunk_accepted"
    /\ sleep_for > 0
    /\ reported > 0
    /\ notified.uploaded_bytes = reported + notified.chunk_size
    /\ notified.uploaded_bytes < entity_size

(***************************************************************************)
(* Claims about the classifier (specification SpecClassify).               *)
(***************************************************************************)
RetriableAsSpecified(ex) ==
    \/ ex.kind \in {"ConnectionError", "Timeout"}
    \/ ex.kind = "HTTPError" /\ 500 <= ex.status /\ ex.status <= 599
    \/ /\ ex.kind = "HTTPError"
       /\ 400 <= ex.status /\ ex.status <= 499
       /\ ex.body = "retriable_true"

\* C3: is_retriable_exception returns true exactly for a connection or
\* timeout failure, an HTTP error with status 500..599, and an HTTP error with
\* status 400..499 whose JSON body carries the retriable flag set true; for
\* every other failure it returns false and does not raise.
C3_Classification ==
    pc = "classified" =>
        call_res = IF RetriableAsSpecified(call_arg) THEN "True" ELSE "False"

(***************************************************************************)
(* Claims about the orchestrator (specification SpecRun).                  *)
(***************************************************************************)
\* C6: in a dry run no operation that contacts the network is performed:
\* neither the real upload backend nor the metadata POST.
C6_DryRunNoNetwork == dry_run => net = {}

\* control is inside _zip_and_upload_single_sequence's `with` block
InsideSequenceCall == pc \in {"zip", "fetch", "upload", "returned", "raised"}

\* C7: the temporary archive of a sequence exists only while
\* _zip_and_upload_single_sequence is running for it: it is gone after a
\* return, a packaging failure, a fatal transport failure and an exhausted
\* retry budget, and no two temporary archives exist together.
C7_TempArchiveReleased ==
    /\ (~InsideSequenceCall => tempfiles = {})
    /\ tempfiles \subseteq {sequence_idx}
    /\ Cardinality(tempfiles) <= 1

C7_Witness ==
    /\ pc = "aborted"
    /\ BudgetSpent
    /\ sequence_idx = 1
    /\ events[Len(events)] = [op |-> "upload_failed", idx |-> 1]
    /\ tempfiles = {}

\* C8: the metadata of a sequence is submitted right after its upload has
\* succeeded and before the next sequence is packaged; nothing follows an
\* upload that failed, so no metadata is submitted for that sequence.
C8_OneSequenceAtATime ==
    \A k \in 1..Len(events) :
        LET e == events[k]
        IN  /\ (e.op = "package" =>
                   \/ k = 1 /\ e.idx = 0
                   \/ k > 1 /\ events[k - 1] = [op |-> "submit", idx |-> e.idx - 1])
            /\ (e.op \in {"upload_ok", "upload_failed"} =>
                   k > 1 /\ events[k - 1] = [op |-> "package", idx |-> e.idx])
            /\ (e.op = "submit" =>
                   k > 1 /\ events[k - 1] = [op |-> "upload_ok", idx |-> e.idx])
            /\ (e.op = "upload_failed" => k = Len(events))

C8_Witness ==
    /\ pc = "aborted"
    /\ events = << [op |-> "package", idx |-> 0],
                   [op |-> "upload_ok", idx |-> 0],
                   [op |-> "submit", idx |-> 0],
                   [op |-> "package", idx |-> 1],
                   [op |-> "upload_failed", idx |-> 1] >>
    /\ Len(posts) = 1

\* an eligible descriptor fails the schema check or names a missing file
Defective ==
    \E i \in 1..Len(descs) : descs[i].Heading /\ descs[i].defect # "none"

\* C9: when an eligible descriptor fails the schema check or names a file that
\* does not exist, the run fails before anything is grouped or packaged and
\* before any fetch_offset, upload or metadata submission.
C9_ValidationFirst ==
    Defective =>
        /\ pc \in {"start", "aborted"}
        /\ net = {}
        /\ events = <<>>
        /\ posts = <<>>
        /\ sequences = <<>>
        /\ tempfiles = {}

C9_Witness ==
    /\ pc = "aborted"
    /\ error = "RuntimeError"
    /\ descs[1].Heading /\ descs[1].defect = "none"
    /\ descs[2].Heading /\ descs[2].defect = "missing"
    /\ net = {}
    /\ events = <<>>

(***************************************************************************)
(* Claims about the packager (specification SpecZip).                      *)
(***************************************************************************)
\* the iteration orders of a map holding the entries of items
Orderings(items) ==
    { p \in [1..Len(items) -> {items[i] : i \in 1..Len(items)}] :
         \A i \in 1..Len(items) : \E j \in 1..Len(items) : p[j] = items[i] }

\* C10: the order in which _zip_sequence feeds the files to the hash and the
\* archive, and so the hash it returns, is the same for every iteration order
\* of the descriptor map, equal capture times included.
C10_HashIndependentOfMapOrder ==
    pc = "zipped" =>
        \A p \in Orderings(call_arg) :
            /\ _zip_sequence(p).md5 = call_res.md5
            /\ _zip_sequence(p).archive = call_res.archive

(***************************************************************************)
(* _find_root_dir called on a set of relative paths (specification         *)
(* SpecRoot).                                                              *)
(***************************************************************************)
\* files at the top, in one directory, in a directory and below it, and in
\* directories that share no parent
RootPaths ==
    { <<"img0.jpg">>,
      <<"a", "img5.jpg">>,
      <<"a", "b", "img1.jpg">>,
      <<"a", "b", "img3.jpg">>,
      <<"a", "b", "c", "img2.jpg">>,
      <<"a", "d", "img4.jpg">>,
      <<"e", "img6.jpg">> }

InitRoot ==
    /\ pc = "root_call"
    /\ call_arg \in SUBSET RootPaths
    /\ call_res = NotCalled
    /\ LoopIdle
    /\ RunIdle

FindRootDir ==
    /\ pc = "root_call"
    /\ call_res' = _find_root_dir(call_arg)
    /\ pc' = "rooted"
    /\ UNCHANGED <<call_arg, loopVars, runVars, zipVars>>

NextRoot == FindRootDir

SpecRoot == InitRoot /\ [][NextRoot]_vars

\* d is p or a directory above p
IsPrefix(d, p) == Len(d) <= Len(p) /\ SubSeq(p, 1, Len(d)) = d

\* the directories that hold every file of file_list, directly or below
CommonDirs(file_list) ==
    { d \in UNION { {SubSeq(p, 1, k) : k \in 0..Len(p)} : p \in file_list } :
         \A p \in file_list : IsPrefix(d, dirname(p)) }

\* C11: for every set of relative paths that is not empty, files at different
\* depths below one directory included, _find_root_dir returns the deepest
\* directory that holds them all; for the empty set it returns None.
C11_DeepestCommonDir ==
    pc = "rooted" =>
        IF call_arg = {} THEN call_res = {}
        ELSE \E d \in CommonDirs(call_arg) :
                /\ call_res = {d}
                /\ \A e \in CommonDirs(call_arg) : Len(e) <= Len(d)

\* the path p after k climbs to the parent
Climbed(p, k) == SubSeq(p, 1, Max(Len(p) - k, 0))

Collapsed(file_list, k) ==
    Cardinality({Climbed(p, k) : p \in file_list}) = 1

Deepest(file_list) ==
    CHOOSE n \in {Len(p) : p \in file_list} :
        \A q \in file_list : Len(q) <= n

\* _find_root_dir returns the directory the parents first coincide in when
\* every path climbs one level at a time.
ClimbsToFirstCollapse ==
    (pc = "rooted" /\ call_arg # {}) =>
        \E k \in 1..Deepest(call_arg) :
            /\ Collapsed(call_arg, k)
            /\ \A j \in 1..(k - 1) : ~Collapsed(call_arg, j)
            /\ call_res = {Climbed(p, k) : p \in call_arg}

NestedExample == {<<"a", "b", "img1.jpg">>, <<"a", "b", "c", "img2.jpg">>}

GroupedFilenames(sequence) ==
    { sequence.images[j].file[Len(sequence.images[j].file)] :
         j \in 1..Len(sequence.images) }

\* C12: the SequenceInfo of a sequence is keyed by the identifier the grouper
\* grouped it under, and the json_data submitted for it holds exactly the
\* descriptors grouped into it; the sequence of the descriptors that carry no
\* identifier included.
C12_SubmissionMatchesGroup ==
    /\ pc = "upload_desc" =>
          sequence_info.key = sequences[sequence_idx + 1].uuid
    /\ \A k \in 1..Len(posts) :
          /\ posts[k].key = sequences[k].uuid
          /\ Len(posts[k].json_data) = Len(sequences[k].images)
          /\ {posts[k].json_data[i] : i \in 1..Len(posts[k].json_data)}
                = GroupedFilenames(sequences[k])

NotRetriable(ex) == is_retriable_exception(ex) \in {"False", "AttributeError"}

\* C17: on a failure the classifier calls fatal, or cannot classify, the loop
\* stops at once and the failure that leaves it is the one it caught, wrapped
\* when it is an HTTPError, and no other error.
C17_FatalSurfacesOriginal ==
    (pc = "raised" /\ caught # NoException /\ NotRetriable(caught)) =>
        raised = Surfaced(caught)

\* C18: the delay before the k-th retry in a row since the last accepted
\* chunk is min(2^k, 16) seconds: 2, 4, 8, then 16 for every later one; it
\* starts again at 2 after an accepted chunk.
C18_BackoffSchedule ==
    /\ sleep_for \in {0, 2, 4, 8, 16}
    /\ (last_step = "failed" /\ pc = "fetch") =>
          /\ sleeps >= 1
          /\ sleep_for = CASE sleeps = 1 -> 2
                           [] sleeps = 2 -> 4
                           [] sleeps = 3 -> 8
                           [] OTHER -> 16
    /\ sleep_for = 0 => sleeps = 0

C18_Witness ==
    /\ last_step = "failed"
    /\ pc = "fetch"
    /\ reset_from = "positive"
    /\ sleeps = 1
    /\ sleep_for = 2

(***************************************************************************)
(* _group_sequences_by_uuid called on a list of image descriptors          *)
(* (specification SpecGroup).  No two descriptors of a list name the same  *)
(* file: path and filename together identify an image.                     *)
(***************************************************************************)
MaxDescs == 3

\* the image files: two in one directory, and one of the same name elsewhere
GroupImages ==
    { [path |-> <<"d">>, filename |-> "img1.jpg"],
      [path |-> <<"d">>, filename |-> "img2.jpg"],
      [path |-> <<"e">>, filename |-> "img1.jpg"] }

GroupDescs ==
    { [filename |-> im.filename, path |-> im.path, SequenceUUID |-> u,
       Heading |-> TRUE, defect |-> "none", CaptureTime |-> 1] :
         im \in GroupImages, u \in SequenceUUIDs }

GroupInputs ==
    UNION { { ds \in [1..n -> GroupDescs] :
                \A i, j \in 1..n :
                    (ds[i].path = ds[j].path /\ ds[i].filename = ds[j].filename)
                        => i = j } :
            n \in 0..MaxDescs }

InitGroup ==
    /\ pc = "group_call"
    /\ call_arg \in GroupInputs
    /\ call_res = NotCalled
    /\ LoopIdle
    /\ RunIdle

GroupSequences ==
    /\ pc = "group_call"
    /\ call_res' = _group_sequences_by_uuid(call_arg)
    /\ pc' = "grouped"
    /\ UNCHANGED <<call_arg, loopVars, runVars, zipVars>>

NextGroup == GroupSequences

SpecGroup == InitGroup /\ [][NextGroup]_vars

\* the places of the entries of the sequences: <<sequence, entry>>
Slots(groups) ==
    UNION { { <<g, j>> : j \in 1..Len(groups[g].images) } :
            g \in 1..Len(groups) }

\* C14: _group_sequences_by_uuid partitions its input: every descriptor is in
\* exactly one sequence, under the key path/filename and without its filename
\* field; the sequence is the one of its identifier, and the one sequence of
\* the single generated identifier when it has none; no sequence is empty, no
\* two have the same identifier and no entry comes from elsewhere.
C14_GroupingPartitions ==
    pc = "grouped" =>
        /\ \A i \in 1..Len(call_arg) :
              LET d == call_arg[i]
                  at == { s \in Slots(call_res) :
                            call_res[s[1]].images[s[2]].file
                                = JoinPath(d.path, d.filename) }
              IN  /\ Cardinality(at) = 1
                  /\ \A s \in at :
                        /\ call_res[s[1]].images[s[2]].desc
                              = [f \in {"path", "SequenceUUID", "Heading",
                                        "defect", "CaptureTime"} |-> d[f]]
                        /\ call_res[s[1]].uuid =
                              IF d.SequenceUUID = NoUUID THEN MissingUUID
                              ELSE d.SequenceUUID
        /\ Cardinality(Slots(call_res)) = Len(call_arg)
        /\ \A g, h \in 1..Len(call_res) :
              call_res[g].uuid = call_res[h].uuid => g = h
        /\ \A g \in 1..Len(call_res) : call_res[g].images # <<>>

C14_Witness ==
    /\ pc = "grouped"
    /\ Len(call_arg) = 3
    /\ Len(call_res) = 2
    /\ \E g \in 1..2 :
          /\ call_res[g].uuid = MissingUUID
          /\ Len(call_res[g].images) = 2

(***************************************************************************)
(* The chunk size of _zip_and_upload_single_sequence and upload_zipfile    *)
(* computed for an archive (specification SpecChunk).                      *)
(***************************************************************************)
MaxImages == 3
MaxSizeUnits == 25

\* archive sizes at, just below and just above the multiples of the minimum
\* chunk size, up to more than MaxImages times the maximum chunk size
ArchiveSizes ==
    { s \in { m * MIN_CHUNK_SIZE + d : m \in 0..MaxSizeUnits, d \in {-1, 0, 1} } :
         s > 0 }

InitChunk ==
    /\ pc = "chunk_call"
    /\ call_arg \in [size : ArchiveSizes, count : 1..MaxImages]
    /\ call_res = NotCalled
    /\ LoopIdle
    /\ RunIdle

ComputeChunkSize ==
    /\ pc = "chunk_call"
    /\ call_res' = ChunkSize(call_arg.size, call_arg.count)
    /\ pc' = "chunked"
    /\ UNCHANGED <<call_arg, loopVars, runVars, zipVars>>

NextChunk == ComputeChunkSize

SpecChunk == InitChunk /\ [][NextChunk]_vars

\* C16: for an archive of positive size and image count the chunk size lies
\* between MIN_CHUNK_SIZE and MAX_CHUNK_SIZE; it is MIN_CHUNK_SIZE when the
\* average image size floor(size / count) is at most that, MAX_CHUNK_SIZE
\* when the average is at least that, and the average otherwise.
C16_ChunkSizeClamped ==
    pc = "chunked" =>
        LET avg == call_arg.size \div call_arg.count
        IN  /\ avg * call_arg.count <= call_arg.size
            /\ call_arg.size < (avg + 1) * call_arg.count
            /\ MIN_CHUNK_SIZE <= call_res
            /\ call_res <= MAX_CHUNK_SIZE
            /\ avg <= MIN_CHUNK_SIZE => call_res = MIN_CHUNK_SIZE
            /\ avg >= MAX_CHUNK_SIZE => call_res = MAX_CHUNK_SIZE
            /\ (MIN_CHUNK_SIZE < avg /\ avg < MAX_CHUNK_SIZE) => call_res = avg

C16_Witness ==
    /\ pc = "chunked"
    /\ call_arg.count = 3
    /\ call_arg.size \div 3 > MAX_CHUNK_SIZE
    /\ call_res = MAX_CHUNK_SIZE

(***************************************************************************)
(* zip_image_dir: validate, group, then for each sequence write the        *)
(* archive into a file of a temporary name and rename the file             *)
(* (specification SpecZipDir).  A file of zip_dir is its name and the      *)
(* entries written into it so far.                                         *)
(***************************************************************************)
\* f"mapilio_tools_{sequence_md5}.zip"
ZipName(md5) == [kind |-> "zip", id |-> md5]

\* the archive written straight into a file of the final kind
NameCanonicalEarly(sequence_uuid) == [kind |-> "zip", id |-> sequence_uuid]

\* f"mapilio_tools_{sequence_uuid}.{os.getpid()}.wip", the pid being the one
\* of the process that runs
NameWhileWriting(sequence_uuid) == [kind |-> "wip", id |-> sequence_uuid]

\* a file created, truncated or renamed onto: the name holds these entries
PutFile(dir, name, entries) ==
    {f \in dir : f.name # name} \cup {[name |-> name, entries |-> entries]}

\* the entries of the file of that name
EntriesOf(dir, name) == (CHOOSE f \in dir : f.name = name).entries

\* The descriptor lists zip_image_dir is called on: three images, the first
\* of which may fail the validation, in one, two or three sequences.
ZipDirInputs ==
    { <<d1, d2, d3>> :
        d1 \in { [filename |-> "img1.jpg", path |-> <<"d">>,
                  SequenceUUID |-> u, Heading |-> TRUE, defect |-> df,
                  CaptureTime |-> 1] :
                    u \in SequenceUUIDs, df \in {"none", "schema", "missing"} },
        d2 \in { [filename |-> "img2.jpg", path |-> <<"d">>,
                  SequenceUUID |-> u, Heading |-> TRUE, defect |-> "none",
                  CaptureTime |-> 2] : u \in SequenceUUIDs },
        d3 \in { [filename |-> "img3.jpg", path |-> <<"d">>,
                  SequenceUUID |-> u, Heading |-> TRUE, defect |-> "none",
                  CaptureTime |-> 3] : u \in SequenceUUIDs } }

\* the sequence zip_image_dir is working on and what _zip_sequence makes of it
ZipDirSequence == sequences[sequence_idx + 1]

ZipDirWip == NameWhileWriting(ZipDirSequence.uuid)

ZipDirZipped == _zip_sequence(ZipDirSequence.images)

\* lines 168-170: the validation of every descriptor, the grouping, makedirs
ZipDirStart ==
    /\ pc = "zipdir_start"
    /\ LET checked == _validate_descs(descs)
       IN  IF checked # "ok"
           THEN /\ pc' = "aborted"
                /\ error' = checked
                /\ UNCHANGED sequences
           ELSE /\ sequences' = _group_sequences_by_uuid(descs)
                /\ pc' = "zipdir_next"
                /\ UNCHANGED error
    /\ UNCHANGED <<user_ok, descs, sequence_idx, tempfiles, sequence_md5,
                   sequence_info, posts, events>>
    /\ UNCHANGED <<loopVars, callVars, zipVars>>

\* `open(zip_filename_wip, "wb")` creates or truncates the file; _zip_sequence
\* raises before it writes when it finds no root directory.
ZipDirOpen ==
    /\ pc = "zipdir_next"
    /\ sequence_idx < Len(sequences)
    /\ zip_dir' = PutFile(zip_dir, ZipDirWip, <<>>)
    /\ IF ZipDirZipped.error # "none"
       THEN /\ pc' = "aborted"
            /\ error' = ZipDirZipped.error
       ELSE /\ pc' = "zipdir_write"
            /\ UNCHANGED error
    /\ UNCHANGED <<user_ok, descs, sequences, sequence_idx, tempfiles,
                   sequence_md5, sequence_info, posts, events>>
    /\ UNCHANGED <<loopVars, callVars>>

\* `ziph.writestr(relpath, image_bytes)` for the next file of the sequence
ZipDirWrite ==
    /\ pc = "zipdir_write"
    /\ LET written == EntriesOf(zip_dir, ZipDirWip)
       IN  /\ Len(written) < Len(ZipDirZipped.archive)
           /\ zip_dir' = PutFile(zip_dir, ZipDirWip,
                                 Append(written,
                                        ZipDirZipped.archive[Len(written) + 1]))
    /\ UNCHANGED <<pc, loopVars, runVars, callVars>>

\* ExifEdit or dump_image_bytes raises on the next file: the exception leaves
\* both `with` blocks and zip_image_dir, which removes nothing.
ZipDirWriteRaises ==
    /\ pc = "zipdir_write"
    /\ Len(EntriesOf(zip_dir, ZipDirWip)) < Len(ZipDirZipped.archive)
    /\ pc' = "aborted"
    /\ error' = "PackagingError"
    /\ UNCHANGED <<user_ok, descs, sequences, sequence_idx, tempfiles,
                   sequence_md5, sequence_info, posts, events>>
    /\ UNCHANGED <<loopVars, callVars, zipVars>>

\* _zip_sequence returns the hash, the file is closed and
\* `os.rename(zip_filename_wip, zip_filename)` replaces what bears the name.
ZipDirRename ==
    /\ pc = "zipdir_write"
    /\ LET written == EntriesOf(zip_dir, ZipDirWip)
       IN  /\ Len(written) = Len(ZipDirZipped.archive)
           /\ zip_dir' = PutFile({f \in zip_dir : f.name # ZipDirWip},
                                 ZipName(ZipDirZipped.md5), written)
    /\ sequence_md5' = ZipDirZipped.md5
    /\ sequence_idx' = sequence_idx + 1
    /\ pc' = "zipdir_next"
    /\ UNCHANGED <<user_ok, descs, sequences, tempfiles, sequence_info, posts,
                   events, error>>
    /\ UNCHANGED <<loopVars, callVars>>

\* the process is killed while it packages
ZipDirKilled ==
    /\ pc \in {"zipdir_next", "zipdir_write"}
    /\ pc' = "killed"
    /\ UNCHANGED <<loopVars, runVars, callVars, zipVars>>

\* the `for` loop has no sequence left
ZipDirEnds ==
    /\ pc = "zipdir_next"
    /\ sequence_idx = Len(sequences)
    /\ pc' = "finished"
    /\ UNCHANGED <<loopVars, runVars, callVars, zipVars>>

InitZipDir ==
    /\ pc = "zipdir_start"
    /\ descs \in ZipDirInputs
    /\ user_ok = TRUE
    /\ sequences = <<>>
    /\ sequence_idx = 0
    /\ tempfiles = {}
    /\ sequence_md5 = <<>>
    /\ sequence_info = NoSequenceInfo
    /\ posts = <<>>
    /\ events = <<>>
    /\ error = "none"
    /\ zip_dir = {}
    /\ LoopIdle
    /\ call_arg = NotCalled
    /\ call_res = NotCalled

NextZipDir ==
    \/ ZipDirStart
    \/ ZipDirOpen
    \/ ZipDirWrite
    \/ ZipDirWriteRaises
    \/ ZipDirRename
    \/ ZipDirKilled
    \/ ZipDirEnds

SpecZipDir == InitZipDir /\ [][NextZipDir]_vars

\* C15: a file of the name mapilio_tools_<hash>.zip holds the complete archive
\* of a sequence that _zip_sequence has finished, the one the hash is of:
\* while an archive is written, and after an exception or a kill, what is
\* incomplete bears the temporary name.
C15_CanonicalOnlyWhenComplete ==
    \A f \in zip_dir :
        f.name.kind = "zip" =>
            \E g \in 1..Len(sequences) :
                /\ g <= sequence_idx
                /\ _zip_sequence(sequences[g].images).error = "none"
                /\ f.name.id = _zip_sequence(sequences[g].images).md5
                /\ f.entries = _zip_sequence(sequences[g].images).archive

\* the second sequence failed after its first file; the first one is complete
C15_Witness ==
    /\ pc = "aborted"
    /\ error = "PackagingError"
    /\ sequence_idx = 1
    /\ \E f \in zip_dir : f.name.kind = "zip"
    /\ \E f \in zip_dir :
          /\ f.name.kind = "wip"
          /\ Len(f.entries) = 1
          /\ Len(sequences[2].images) = 2

(***************************************************************************)
(* Termination of the retry loop (specification SpecLoopFair).  The        *)
(* program is sequential and every call of a collaborator returns or       *)
(* raises, so a step that can be taken is taken.                           *)
(***************************************************************************)
SpecLoopFair == InitLoop /\ [][NextLoop]_vars /\ WF_vars(NextLoop)

LoopEnded == pc \in {"returned", "raised"}

\* What is left to do: the bytes the server does not hold yet, then the
\* retries the budget still allows, then the calls of the current attempt.
\* An accepted chunk gives the whole budget back and takes a byte away.
Variant ==
    (entity_size - server_offset) * (3 * (MaxRetries + 1))
        + 3 * (MaxRetries - retries)
        + (CASE pc = "fetch" -> 2 [] pc = "upload" -> 1 [] OTHER -> 0)

\* C20: every run of the loop ends, by returning the hash or by raising:
\* each step of the loop brings it nearer to the end, by a measure that
\* cannot fall below zero, and the end is reached.
C20_LoopTerminates ==
    /\ [][Variant' < Variant]_vars
    /\ [](Variant >= 0)
    /\ <>LoopEnded

\* the loop returns after failures before and after an accepted chunk
C20_Witness ==
    /\ pc = "returned"
    /\ reset_from = "positive"
    /\ sleep_for > 0
    /\ server_offset = entity_size

====
